---- MODULE Spec2Model ----
(***************************************************************************)
(* Model of the skill recommendation core, ai/recommendation/service.py:   *)
(* get_recommendations (encode, cosine score, feedback weighting, argsort  *)
(* top 5) and generate_learning_path.                                      *)
(*                                                                         *)
(* Numbers.  A score is kept exactly as the triple [num, den, nsq] that    *)
(* stands for  num / (den * sqrt(nsq)) : num is the dot product times the  *)
(* numerators of the feedback factors, den the product of their            *)
(* denominators (1.2 = 6/5, 0.8 = 4/5), nsq the product of the two squared *)
(* norms.  nsq = 0 is the 0/0 of a zero-norm vector, numpy's nan.          *)
(* Positions are 1-based here and 0-based in the code.                     *)
(***************************************************************************)
EXTENDS Integers, Sequences, FiniteSets

\* ------------------------------------------------------------------ bounds
MaxCat == 6

MaxUser == 3

\* --------------------------------------------------------------- constants
TopK == 5

PathSkills == 3

IntermediateOver == 2

\* A like that lowers the score.
Liked_low == <<4, 5>>

\* 1.2 and 0.8 as fractions.
Liked == <<6, 5>>

Disliked == <<4, 5>>

Foundation == "Foundation Skills"

Intermediate == "Intermediate Topics"

Advanced == "Advanced Mastery"

\* ------------------------------------------------------------------ inputs
\* Skill names: any string is a legal name, a marker text of the learning
\* path included.
Names == {"python", "Intermediate Topics"}

\* The names the user's own skills are drawn from.
UserNames == {"python"}

Vec == {<<0 - 1>>, <<0>>, <<1>>}

\* Negating every vector changes no cosine, so one sign is enough for the
\* names the user vector is built from.
UserVec == {<<0>>, <<1>>}

Encoders == {e \in [Names -> Vec] : \A n \in UserNames : e[n] \in UserVec}

SeqsUpTo(S, n) == UNION {[1..k -> S] : k \in 0..n}

Exchanges == {<<>>, <<"x1">>}

None == [given |-> FALSE, liked |-> {}, disliked |-> {}]

Feedbacks == {None} \cup {[given |-> TRUE, liked |-> l, disliked |-> d] : l \in SUBSET Names, d \in SUBSET Names}

Requests == [user_skills : SeqsUpTo(UserNames, MaxUser), all_skills : SeqsUpTo(Names, MaxCat), feedback : Feedbacks]

SortKinds == {"stable", "reversed"}

VARIABLES encoding, request, pc, similarities, top_indices, response, argsortMemo, log

vars == <<encoding, request, pc, similarities, top_indices, response, argsortMemo, log>>

\* A sequence given by a rule, as the tuple of its values.
AsSeq(s) == SubSeq(s, 1, Len(s))

\* ----------------------------------------------------------------- encoder
\* One vector per name, same order, same count; the mapping name -> vector
\* is a fixed pure function (the variable encoding, drawn once).
encode_skills(names) == AsSeq([i \in 1..Len(names) |-> encoding[names[i]]])

ZeroVec == <<0>>

RECURSIVE SumVec(_, _)
SumVec(vs, i) == IF i = 0 THEN ZeroVec ELSE LET rest == SumVec(vs, i - 1) IN AsSeq([d \in DOMAIN ZeroVec |-> rest[d] + vs[i][d]])

\* The encoding of the whole user_skills list used as one comparison vector.
user_vector_of(user_skills) == SumVec(encode_skills(user_skills), Len(user_skills))

\* -------------------------------------------------------------- arithmetic
RECURSIVE DotUpTo(_, _, _)
DotUpTo(v, w, i) == IF i = 0 THEN 0 ELSE DotUpTo(v, w, i - 1) + v[i] * w[i]

Dot(v, w) == DotUpTo(v, w, Len(v))

NormSq(v) == Dot(v, v)

Cosine(v, u) == [num |-> Dot(v, u), den |-> 1, nsq |-> NormSq(v) * NormSq(u)]

Times(x, f) == [x EXCEPT !.num = @ * f[1], !.den = @ * f[2]]

IsNaN(x) == x.nsq = 0

SignedSq(t) == t * (IF t < 0 THEN 0 - t ELSE t)

LtNum(x, y) == SignedSq(x.num * y.den) * y.nsq < SignedSq(y.num * x.den) * x.nsq

\* IEEE comparisons: false when either side is nan.
FloatLt(x, y) == ~IsNaN(x) /\ ~IsNaN(y) /\ LtNum(x, y)

FloatEq(x, y) == ~IsNaN(x) /\ ~IsNaN(y) /\ ~LtNum(x, y) /\ ~LtNum(y, x)

\* The order numpy sorts by: numbers ascending, nan after every number.
SortLt(x, y) == IF IsNaN(y) THEN ~IsNaN(x) ELSE ~IsNaN(x) /\ LtNum(x, y)

\* ----------------------------------------------------------------- scoring
\* service.py line 9: one cosine per catalog position.
Similarities(user_skills, all_skills) == LET user_vector == user_vector_of(user_skills)
                                             skill_vectors == encode_skills(all_skills)
                                         IN AsSeq([i \in 1..Len(all_skills) |-> Cosine(skill_vectors[i], user_vector)])

\* The loop body with the second test written as an elif.
Adjust_elif(s, skill, feedback) == IF skill \in feedback.liked THEN Times(s, Liked) ELSE IF skill \in feedback.disliked THEN Times(s, Disliked) ELSE s

\* service.py lines 14-17, one pass of the loop body.
Adjust(s, skill, feedback) == LET a == IF skill \in feedback.liked THEN Times(s, Liked) ELSE s IN IF skill \in feedback.disliked THEN Times(a, Disliked) ELSE a

\* The weights of every logged call's feedback kept and applied again.
ApplyFeedback_sticky(sims, all_skills, feedback) == LET seen == [given |-> TRUE, liked |-> feedback.liked \cup UNION {e.request.feedback.liked : e \in log}, disliked |-> feedback.disliked \cup UNION {e.request.feedback.disliked : e \in log}]
                                                    IN AsSeq([i \in 1..Len(all_skills) |-> Adjust(sims[i], all_skills[i], seen)])

\* service.py lines 12-17.
ApplyFeedback(sims, all_skills, feedback) == IF feedback.given THEN AsSeq([i \in 1..Len(all_skills) |-> Adjust(sims[i], all_skills[i], feedback)]) ELSE sims

\* ----------------------------------------------------------------- ranking
\* A comparison sort sees only the outcomes of its comparisons: the order
\* type of the array (per position, how many keys sort strictly below it).
Pattern(sims) == AsSeq([i \in 1..Len(sims) |-> Cardinality({j \in 1..Len(sims) : SortLt(sims[j], sims[i])})])

HasTies(sims) == LET pat == Pattern(sims) IN \E i, j \in 1..Len(sims) : i < j /\ pat[i] = pat[j]

\* np.argsort with the default kind: ascending, nan last.  The default sort
\* is not a stable one, so the order of equal keys is the library's choice;
\* kind names the two extreme choices (equal keys in catalog order, or in
\* reverse catalog order).  below[i] counts the positions sorted before i.
argsort(sims, kind) == LET pat == Pattern(sims)
                           below == AsSeq([i \in 1..Len(sims) |-> pat[i] + Cardinality({j \in 1..Len(sims) : pat[j] = pat[i] /\ IF kind = "stable" THEN j < i ELSE j > i})])
                       IN AsSeq([r \in 1..Len(sims) |-> CHOOSE i \in 1..Len(sims) : below[i] = r - 1])

Min(a, b) == IF a < b THEN a ELSE b

\* The first k in the place of the last k.
LastK_head(s, k) == SubSeq(s, 1, Min(k, Len(s)))

\* s[-k:]
LastK(s, k) == SubSeq(s, Len(s) - Min(k, Len(s)) + 1, Len(s))

\* The whole list in the place of the first k.
FirstK_all(s, k) == s

\* s[:k]
FirstK(s, k) == SubSeq(s, 1, Min(k, Len(s)))

\* s[::-1]
Reverse(s) == AsSeq([k \in 1..Len(s) |-> s[Len(s) + 1 - k]])

\* Line 19 without the [-5:] slice.
TopIndices_unsliced(sims, kind) == Reverse(argsort(sims, kind))

\* Line 19 without the [::-1] reversal.
TopIndices_unreversed(sims, kind) == LastK(argsort(sims, kind), TopK)

\* service.py line 19.
TopIndices(sims, kind) == Reverse(LastK(argsort(sims, kind), TopK))

\* The sort is a deterministic algorithm: an order type met before is
\* sorted as before.
ArgsortKinds(sims) == {kind \in SortKinds : /\ \A m \in argsortMemo : m.pattern = Pattern(sims) => m.kind = kind
                                            /\ HasTies(sims) \/ kind = "stable"}

\* ------------------------------------------------------------ learning path
\* The path without its closing marker.
generate_learning_path_open(current_skills, recommended_skills) == LET p1 == <<Foundation>>
                                                                       p2 == IF Len(current_skills) > IntermediateOver THEN Append(p1, Intermediate) ELSE p1
                                                                   IN p2 \o FirstK(recommended_skills, PathSkills)

\* The path with >= in the place of > in the test on len(current_skills).
generate_learning_path_ge(current_skills, recommended_skills) == LET p1 == <<Foundation>>
                                                                     p2 == IF Len(current_skills) >= IntermediateOver THEN Append(p1, Intermediate) ELSE p1
                                                                     p3 == p2 \o FirstK(recommended_skills, PathSkills)
                                                                 IN Append(p3, Advanced)

\* service.py lines 31-38.
generate_learning_path(current_skills, recommended_skills) == LET p1 == <<Foundation>>
                                                                  p2 == IF Len(current_skills) > IntermediateOver THEN Append(p1, Intermediate) ELSE p1
                                                                  p3 == p2 \o FirstK(recommended_skills, PathSkills)
                                                              IN Append(p3, Advanced)

\* A placeholder that is not empty.
recommended_users_filled == <<"user-1">>

\* service.py line 22.
recommended_users == <<>>

\* ------------------------------------------------------------------ actions
\* service.py lines 4-29, one whole call.
get_recommendations(user_skills, all_skills, user_exchanges, feedback, kind) == LET sims == ApplyFeedback(Similarities(user_skills, all_skills), all_skills, feedback)
                                                                                    top == TopIndices(sims, kind)
                                                                                    rec == AsSeq([k \in 1..Len(top) |-> all_skills[top[k]]])
                                                                                IN [similarities |-> sims, top_indices |-> top, response |-> [recommended_skills |-> rec, recommended_users |-> recommended_users, learning_path |-> generate_learning_path(user_skills, rec)]]

\* The sort's order of equal keys is drawn, then the call runs (once per
\* distinct result, whatever user_exchanges holds: the code never reads it).
Call(req) == \E kind \in SortKinds :
                \E out \in {get_recommendations(req.user_skills, req.all_skills, user_exchanges, req.feedback, kind) : user_exchanges \in Exchanges} :
                    /\ kind \in ArgsortKinds(out.similarities)
                    /\ request' = req
                    /\ similarities' = out.similarities
                    /\ top_indices' = out.top_indices
                    /\ response' = out.response
                    /\ argsortMemo' = argsortMemo \cup {[pattern |-> Pattern(out.similarities), kind |-> kind]}
                    /\ log' = log \cup {[request |-> req, similarities |-> out.similarities, top_indices |-> out.top_indices, response |-> out.response]}
                    /\ pc' = "done"
                    /\ UNCHANGED encoding

\* The call the endpoint hands over (api.py lines 19-25).
Recommend == pc = "pending" /\ Call(request)

LikeOnly(n) == [given |-> TRUE, liked |-> {n}, disliked |-> {}]

\* A later call of the same client: the same skills, with one recommended
\* skill liked, or with the feedback of an earlier call.
FollowUps == ({LikeOnly(response.recommended_skills[k]) : k \in DOMAIN response.recommended_skills} \cup {e.request.feedback : e \in log}) \ {request.feedback}

FollowUp == pc = "done" /\ \E fb \in FollowUps : Call([request EXCEPT !.feedback = fb])

NoResponse == [recommended_skills |-> <<>>, recommended_users |-> <<>>, learning_path |-> <<>>]

Init == /\ encoding \in Encoders
        /\ request \in Requests
        /\ pc = "pending"
        /\ similarities = <<>>
        /\ top_indices = <<>>
        /\ response = NoResponse
        /\ argsortMemo = {}
        /\ log = {}

Next == Recommend

Spec == Init /\ [][Next]_vars

InitCalls == Init /\ ~request.feedback.given

NextCalls == Recommend \/ FollowUp

SpecCalls == InitCalls /\ [][NextCalls]_vars

\* ================================================================== claims
Done == pc = "done"

Range(s) == {s[k] : k \in DOMAIN s}

Rec == response.recommended_skills

Path == response.learning_path

Cat == request.all_skills

\* The rank (1 = first) at which position p stands in a top list, 0 if absent.
RankIn(top, p) == IF \E k \in DOMAIN top : top[k] = p THEN CHOOSE k \in DOMAIN top : top[k] = p ELSE 0

\* Two scores that are the same number (or both nan).
SameValue(x, y) == IF IsNaN(x) \/ IsNaN(y) THEN IsNaN(x) /\ IsNaN(y) ELSE x.nsq = y.nsq /\ x.num * y.den = y.num * x.den

\* C1: with non-empty all_skills and user_skills, recommended_skills has
\* exactly min(5, len(all_skills)) entries and every entry is a catalog name.
C1_LengthAndMembership == (Done /\ Len(Cat) > 0 /\ Len(request.user_skills) > 0) => (Len(Rec) = (IF Len(Cat) < 5 THEN Len(Cat) ELSE 5) /\ \A k \in DOMAIN Rec : Rec[k] \in Range(Cat))

C1_Witness == Done /\ Len(Cat) > 5 /\ Len(request.user_skills) > 0 /\ Len(Rec) = 5 /\ request.feedback.given

\* C2: recommended_skills is the catalog ranked by final score, descending,
\* cut to the top 5: consecutive entries never increase in score, and no
\* position left out scores strictly more than a selected one.
C2_RankedDescending == Done => /\ Len(Rec) = Len(top_indices)
                               /\ \A k \in DOMAIN top_indices : top_indices[k] \in DOMAIN Cat /\ Rec[k] = Cat[top_indices[k]]
                               /\ \A k \in 1..(Len(top_indices) - 1) : ~FloatLt(similarities[top_indices[k]], similarities[top_indices[k + 1]])
                               /\ \A j \in (DOMAIN Cat) \ Range(top_indices) : \A k \in DOMAIN top_indices : ~FloatLt(similarities[top_indices[k]], similarities[j])

C2_Witness == /\ Done
              /\ Len(Cat) > 5
              /\ request.feedback.given
              /\ \E j \in (DOMAIN Cat) \ Range(top_indices) : j > 1 /\ FloatLt(similarities[j], similarities[top_indices[Len(top_indices)]])

\* The factor the claim names for a catalog name under a feedback.
ClaimedFactor(n, fb) == IF n \in fb.liked /\ n \in fb.disliked THEN <<24, 25>> ELSE IF n \in fb.liked THEN <<6, 5>> ELSE IF n \in fb.disliked THEN <<4, 5>> ELSE <<1, 1>>

\* C3: with feedback, the pre-rank score of a position is its no-feedback
\* score times 1.2 if liked, times 0.8 if disliked, times 0.96 if both, and
\* unchanged if neither.
C3_FeedbackFactors == (Done /\ request.feedback.given) => \A i \in DOMAIN Cat : SameValue(similarities[i], Times(Similarities(request.user_skills, Cat)[i], ClaimedFactor(Cat[i], request.feedback)))

C3_Witness == /\ Done
              /\ request.feedback.given
              /\ \E i, j \in DOMAIN Cat : /\ Cat[i] \in request.feedback.liked \cap request.feedback.disliked
                                          /\ similarities[i].num > 0
                                          /\ Cat[j] \in request.feedback.disliked \ request.feedback.liked
                                          /\ similarities[j].num < 0

\* C4: the learning path starts with "Foundation Skills" and ends with
\* "Advanced Mastery".
C4_PathEnds == Done => (Len(Path) >= 2 /\ Path[1] = "Foundation Skills" /\ Path[Len(Path)] = "Advanced Mastery")

C4_Witness == Done /\ Len(Path) = 6 /\ Path[3] = "Intermediate Topics"

HasIntermediate == \E k \in DOMAIN Path : Path[k] = "Intermediate Topics"

\* C5 as stated: the learning path contains "Intermediate Topics" if and
\* only if len(user_skills) > 2, whatever the catalog names.
C5_Original == Done => (HasIntermediate <=> Len(request.user_skills) > 2)

\* C5 amended: the learning path contains "Intermediate Topics" if and only
\* if len(user_skills) > 2 or one of the first three recommended skills is
\* itself named "Intermediate Topics".
C5_Amended == Done => (HasIntermediate <=> (Len(request.user_skills) > 2 \/ \E k \in DOMAIN Rec : k <= 3 /\ Rec[k] = "Intermediate Topics"))

C5_Witness == Done /\ Len(request.user_skills) <= 2 /\ HasIntermediate /\ Len(Rec) = 5 /\ Rec[1] # "Intermediate Topics"

\* C6: after the leading markers and before the final "Advanced Mastery"
\* stand exactly the first min(3, len(recommended_skills)) recommended skills
\* of the same call, in order; the path has length
\* 2 + (1 if len(user_skills) > 2) + min(3, len(recommended_skills)).
C6_PathBody == Done => LET lead == IF Len(request.user_skills) > 2 THEN 2 ELSE 1
                           m == IF Len(Rec) < 3 THEN Len(Rec) ELSE 3
                       IN /\ Len(Path) = lead + m + 1
                          /\ \A k \in 1..m : Path[lead + k] = Rec[k]

C6_Witness == Done /\ Len(Rec) = 5 /\ Len(request.user_skills) > 2 /\ Rec[1] # Rec[2] /\ Rec[4] # Rec[3]

\* C7: recommended_users is the empty sequence for every input.
C7_NoUsers == Done => response.recommended_users = <<>>

C7_Witness == Done /\ Len(Cat) > 5 /\ Len(request.user_skills) > 0 /\ request.feedback.liked # {} /\ Len(Rec) = 5 /\ response.recommended_users = <<>>

UsedKind(kind) == [pattern |-> Pattern(similarities), kind |-> kind] \in argsortMemo

TiedPairs == {pr \in (DOMAIN top_indices) \X (DOMAIN top_indices) : top_indices[pr[1]] < top_indices[pr[2]] /\ FloatEq(similarities[top_indices[pr[1]]], similarities[top_indices[pr[2]]])}

\* C9 as stated: of two selected positions with equal final scores, the one
\* later in all_skills comes earlier in recommended_skills.
C9_Original == Done => \A pr \in TiedPairs : pr[2] < pr[1]

\* C9 amended: of two selected positions with equal final scores, the later
\* one comes earlier when argsort kept equal keys in catalog order (a stable
\* sort) and the earlier one comes earlier when it did not; the default
\* argsort promises neither.
C9_Amended == Done => \A pr \in TiedPairs : (UsedKind("stable") => pr[2] < pr[1]) /\ (UsedKind("reversed") => pr[1] < pr[2])

C9_Witness == Done /\ UsedKind("reversed") /\ \E pr \in TiedPairs : pr[1] < pr[2] /\ Cat[top_indices[pr[1]]] # Cat[top_indices[pr[2]]]

Positive(x) == ~IsNaN(x) /\ x.num > 0

Occurrences(n, cat) == Cardinality({i \in DOMAIN cat : cat[i] = n})

\* Pairs of logged calls: one without feedback, one on the same skills with
\* only the name n liked.
LikePairs == {pr \in log \X log : /\ ~pr[1].request.feedback.given
                                  /\ pr[2].request.feedback.given
                                  /\ pr[2].request.feedback.disliked = {}
                                  /\ Cardinality(pr[2].request.feedback.liked) = 1
                                  /\ pr[2].request.user_skills = pr[1].request.user_skills
                                  /\ pr[2].request.all_skills = pr[1].request.all_skills}

KeptAtRankOrBetter(pr, p) == RankIn(pr[2].top_indices, p) # 0 /\ RankIn(pr[2].top_indices, p) <= RankIn(pr[1].top_indices, p)

\* C10 as stated: a position with a strictly positive no-feedback score that
\* is selected without feedback is still selected, at the same rank or an
\* earlier one, when only its name is liked.
C10_Original == \A pr \in LikePairs : \A p \in Range(pr[1].top_indices) : (Positive(pr[1].similarities[p]) /\ pr[2].request.feedback.liked = {pr[1].request.all_skills[p]}) => KeptAtRankOrBetter(pr, p)

\* C10 amended: the same, for a position whose name occurs at no other
\* position of all_skills.
C10_Amended == \A pr \in LikePairs : \A p \in Range(pr[1].top_indices) : (Positive(pr[1].similarities[p]) /\ pr[2].request.feedback.liked = {pr[1].request.all_skills[p]} /\ Occurrences(pr[1].request.all_skills[p], pr[1].request.all_skills) = 1) => KeptAtRankOrBetter(pr, p)

C10_Witness == \E pr \in LikePairs : \E p \in Range(pr[1].top_indices) : /\ Positive(pr[1].similarities[p])
                                                                         /\ pr[2].request.feedback.liked = {pr[1].request.all_skills[p]}
                                                                         /\ Occurrences(pr[1].request.all_skills[p], pr[1].request.all_skills) = 1
                                                                         /\ Len(pr[1].request.all_skills) > 5
                                                                         /\ RankIn(pr[2].top_indices, p) = 1
                                                                         /\ RankIn(pr[1].top_indices, p) = 5

====
